---- MODULE Spec2Model ----
(***************************************************************************)
(* Model of toppreise_web_dashboard.py: the CHF price parser, the fetch of *)
(* one source page, the polling cycle over PRODUCTS, the output files, the *)
(* ntfy alert evaluation, and main() with its four run modes.              *)
(*                                                                         *)
(* Texts are sequences of characters; a character is a one-element string, *)
(* except the two non-ASCII characters, written "uuml" (u umlaut) and      *)
(* "rsquo" (right single quotation mark).  Amounts are counted in cents    *)
(* (Rappen): 1099.00 is 109900.  An Optional[float] is the empty sequence  *)
(* (None) or a one-element sequence.                                       *)
(***************************************************************************)
EXTENDS Integers, Sequences, FiniteSets, TLC

VARIABLES
    text,       \* the argument of extract_min_price_from_text
    result,     \* what it returned
    ppc,        \* "call" before, "returned" after
    args,       \* the parsed command line: --serve, --interval
    tpc,        \* per thread: where it is in main() / job() / generate_once()
    frame,      \* per thread: the locals of the job it runs
    files,      \* the three output files as a reader sees them
    posts,      \* the ntfy requests of the alert evaluation of the running job
    lastLog,    \* the last line printed by job()
    lastRead,   \* the file content the HTTP server last served, None before
    site,       \* the pages the source site answers with during this run
    attempts,   \* per URL: fetch attempts of the current cycle
    sincePause  \* fetch attempts begun since the last pacing delay

mainVars == <<args, tpc, frame, files, posts, lastLog, lastRead, site, attempts, sincePause>>
vars == <<text, result, ppc, args, tpc, frame, files, posts, lastLog, lastRead, site,
          attempts, sincePause>>

\* What no step of main() changes: the parser's variables and the site.
fixed == <<text, result, ppc, site>>

-----------------------------------------------------------------------------
(* Python values *)

None == << >>
Some(v) == <<v>>

\* The outcome of a call that may raise: a value or an exception.
Returned(v) == [raised |-> FALSE, value |-> v]
Raised(e) == [raised |-> TRUE, exc |-> e]

Min(S) == CHOOSE x \in S : \A y \in S : x <= y

-----------------------------------------------------------------------------
(* Characters *)

Digits == {"0", "1", "2", "3", "4", "5", "6", "7", "8", "9"}

DigitVal(c) ==
    CASE c = "0" -> 0 [] c = "1" -> 1 [] c = "2" -> 2 [] c = "3" -> 3
      [] c = "4" -> 4 [] c = "5" -> 5 [] c = "6" -> 6 [] c = "7" -> 7
      [] c = "8" -> 8 [] c = "9" -> 9

DigitChar(d) ==
    CASE d = 0 -> "0" [] d = 1 -> "1" [] d = 2 -> "2" [] d = 3 -> "3"
      [] d = 4 -> "4" [] d = 5 -> "5" [] d = 6 -> "6" [] d = 7 -> "7"
      [] d = 8 -> "8" [] d = 9 -> "9"

\* re.IGNORECASE: both sides are compared in lower case.
Lower(c) ==
    CASE c = "A" -> "a" [] c = "B" -> "b" [] c = "C" -> "c" [] c = "D" -> "d"
      [] c = "E" -> "e" [] c = "F" -> "f" [] c = "G" -> "g" [] c = "H" -> "h"
      [] c = "I" -> "i" [] c = "K" -> "k" [] c = "N" -> "n" [] c = "O" -> "o"
      [] c = "P" -> "p" [] c = "R" -> "r" [] c = "S" -> "s" [] c = "T" -> "t"
      [] c = "U" -> "u" [] c = "UUML" -> "uuml"
      [] OTHER -> c

\* \s of a str pattern, and what str.strip() removes.
IsSpace(c) == c \in {" ", "\n", "\t"}

\* The character class [0-9'’_].
AmountChars == Digits \cup {"'", "rsquo", "_"}

-----------------------------------------------------------------------------
(* The three regular expressions *)

\* A literal of the pattern (given in lower case) matches at index i.
LitAt(s, i, lit) ==
    /\ i >= 1
    /\ i + Len(lit) - 1 <= Len(s)
    /\ \A k \in 1..Len(lit) : Lower(s[i + k - 1]) = lit[k]

\* \s* (greedy) from index i: the index of the first character not consumed.
RECURSIVE SkipSpace(_, _)
SkipSpace(s, i) ==
    IF i <= Len(s) /\ IsSpace(s[i]) THEN SkipSpace(s, i + 1) ELSE i

\* [0-9'’_]* (greedy) from index i.
RECURSIVE SkipAmountChars(_, _)
SkipAmountChars(s, i) ==
    IF i <= Len(s) /\ s[i] \in AmountChars THEN SkipAmountChars(s, i + 1) ELSE i

NoMatch == [ok |-> FALSE]

\* ([0-9'’_]+(?:\.[0-9]{2})?) anchored at i: the index after the group, 0
\* when the group does not match.  Nothing follows the group in any of the
\* patterns, so the greedy choice is the match.
AmountEnd(s, i) ==
    LET j == SkipAmountChars(s, i)
    IN  IF j = i THEN 0
        ELSE IF /\ j + 2 <= Len(s)
                /\ s[j] = "."
                /\ s[j + 1] \in Digits
                /\ s[j + 2] \in Digits
             THEN j + 3
             ELSE j

\* CHF\s*([0-9'’_]+(?:\.[0-9]{2})?) anchored at i (RE_CHF_ANY).
RE_CHF_ANY_At(s, i) ==
    IF ~LitAt(s, i, <<"c", "h", "f">>) THEN NoMatch
    ELSE LET j == SkipSpace(s, i + 3)
             e == AmountEnd(s, j)
         IN  IF e = 0 THEN NoMatch
             ELSE [ok |-> TRUE, start |-> i, end |-> e, group |-> SubSeq(s, j, e - 1)]

\* ab\s*CHF\s*([0-9'’_]+(?:\.[0-9]{2})?) anchored at i (RE_AB_CHF).
RE_AB_CHF_At(s, i) ==
    IF ~LitAt(s, i, <<"a", "b">>) THEN NoMatch
    ELSE LET m == RE_CHF_ANY_At(s, SkipSpace(s, i + 2))
         IN  IF m.ok THEN [m EXCEPT !.start = i] ELSE NoMatch

GuenstigsterLit == <<"g", "uuml", "n", "s", "t", "i", "g", "s", "t", "e", "r">>
ProduktpreisLit == <<"p", "r", "o", "d", "u", "k", "t", "p", "r", "e", "i", "s">>

\* günstigster\s+Produktpreis.*?CHF\s*(...) anchored at i (RE_GUENSTIGSTER,
\* DOTALL): .*? is lazy, so the CHF amount taken is the first one at or after
\* the end of the label.
RE_GUENSTIGSTER_At(s, i) ==
    LET a == i + Len(GuenstigsterLit)
        b == SkipSpace(s, a)
        c == b + Len(ProduktpreisLit)
        J == {j \in c..Len(s) : RE_CHF_ANY_At(s, j).ok}
    IN  IF /\ LitAt(s, i, GuenstigsterLit)
           /\ b > a
           /\ LitAt(s, b, ProduktpreisLit)
           /\ J # {}
        THEN [RE_CHF_ANY_At(s, Min(J)) EXCEPT !.start = i]
        ELSE NoMatch

\* pattern.search(text): the leftmost match.
RE_AB_CHF_search(s) ==
    LET I == {i \in 1..Len(s) : RE_AB_CHF_At(s, i).ok}
    IN  IF I = {} THEN NoMatch ELSE RE_AB_CHF_At(s, Min(I))

RE_GUENSTIGSTER_search(s) ==
    LET I == {i \in 1..Len(s) : RE_GUENSTIGSTER_At(s, i).ok}
    IN  IF I = {} THEN NoMatch ELSE RE_GUENSTIGSTER_At(s, Min(I))

\* RE_CHF_ANY.finditer(text) from position pos: the non-overlapping matches,
\* left to right, each search resuming where the previous match ended.
RECURSIVE RE_CHF_ANY_finditer(_, _)
RE_CHF_ANY_finditer(s, pos) ==
    IF pos > Len(s) THEN << >>
    ELSE LET m == RE_CHF_ANY_At(s, pos)
         IN  IF m.ok THEN <<m>> \o RE_CHF_ANY_finditer(s, m.end)
             ELSE RE_CHF_ANY_finditer(s, pos + 1)

-----------------------------------------------------------------------------
(* chf_to_float *)

\* str.replace(a, b) for a single character a; b is a sequence of characters.
RECURSIVE Replace(_, _, _)
Replace(s, a, b) ==
    IF s = << >> THEN << >>
    ELSE (IF Head(s) = a THEN b ELSE <<Head(s)>>) \o Replace(Tail(s), a, b)

RECURSIVE LStrip(_)
LStrip(s) == IF s # << >> /\ IsSpace(Head(s)) THEN LStrip(Tail(s)) ELSE s

RECURSIVE RStrip(_)
RStrip(s) ==
    IF s # << >> /\ IsSpace(s[Len(s)]) THEN RStrip(SubSeq(s, 1, Len(s) - 1)) ELSE s

Strip(s) == RStrip(LStrip(s))

RECURSIVE DigitsValue(_)
DigitsValue(s) ==
    IF s = << >> THEN 0
    ELSE 10 * DigitsValue(SubSeq(s, 1, Len(s) - 1)) + DigitVal(s[Len(s)])

AllDigits(s) == \A k \in 1..Len(s) : s[k] \in Digits

\* float(s), in cents, for the decimal literals this program meets: digits
\* with an optional fraction of at most two digits (the patterns admit
\* exactly two, "{x:.2f}" writes exactly two).  Anything else that the
\* program can pass (an empty string, separators only, a comma) is a
\* ValueError.
PyFloat(s0) ==
    LET s == Strip(s0)
        Dots == {k \in 1..Len(s) : s[k] = "."}
        d == IF Dots = {} THEN Len(s) + 1 ELSE Min(Dots)
        whole == SubSeq(s, 1, d - 1)
        frac == SubSeq(s, d + 1, Len(s))
    IN  IF /\ AllDigits(whole)
           /\ AllDigits(frac)
           /\ Len(whole) + Len(frac) >= 1
           /\ Len(frac) <= 2
        THEN Returned(100 * DigitsValue(whole)
                        + (IF Len(frac) = 1 THEN 10 ELSE 1) * DigitsValue(frac))
        ELSE Raised("ValueError")

chf_to_float(val) ==
    LET clean == Strip(Replace(Replace(Replace(val, "rsquo", <<"'">>), "'", << >>),
                               "_", << >>))
        first == PyFloat(clean)
    IN  IF ~first.raised THEN first
        ELSE PyFloat(Replace(clean, ",", <<".">>))

-----------------------------------------------------------------------------
(* extract_min_price_from_text *)

RangeLo == 10000
RangeHi == 300000

\* line 132
InRange_Exclusive(price) == RangeLo < price /\ price < RangeHi

InRange(price) == RangeLo <= price /\ price <= RangeHi

\* The loop of lines 128-135 over the matches ms: the candidates list.
RECURSIVE Candidates(_)
Candidates(ms) ==
    IF ms = << >> THEN << >>
    ELSE LET r == chf_to_float(Head(ms).group)
         IN  (IF ~r.raised /\ InRange(r.value) THEN <<r.value>> ELSE << >>)
                 \o Candidates(Tail(ms))

\* min(candidates)
RECURSIVE PyMin(_)
PyMin(xs) ==
    IF Len(xs) = 1 THEN xs[1]
    ELSE LET m == PyMin(Tail(xs)) IN IF m < Head(xs) THEN m ELSE Head(xs)

Tier3(s) ==
    LET candidates == Candidates(RE_CHF_ANY_finditer(s, 1))
    IN  IF candidates # << >> THEN Some(PyMin(candidates)) ELSE None

Tier2(s) ==
    LET m == RE_GUENSTIGSTER_search(s)
        r == chf_to_float(m.group)
    IN  IF m.ok /\ ~r.raised THEN Some(r.value) ELSE Tier3(s)

\* lines 120-126 onwards
extract_min_price_from_text_FromSecondTier(s) == Tier2(s)

extract_min_price_from_text(s) ==
    LET m == RE_AB_CHF_search(s)
        r == chf_to_float(m.group)
    IN  IF m.ok /\ ~r.raised THEN Some(r.value) ELSE Tier2(s)

-----------------------------------------------------------------------------
(* fetch_min_price *)

\* A retrieved page as fetch_min_price sees it: whether requests.get and
\* raise_for_status succeeded, soup.get_text(" ", strip=True), and
\* tag.get_text(" ", strip=True) of every tag of find_all(True), in order.
ErrorPage == [status |-> "error", text |-> << >>, tags |-> << >>]

\* sub in s (case-sensitive)
Contains(s, sub) ==
    \E i \in 1..(Len(s) - Len(sub) + 1) : SubSeq(s, i, i + Len(sub) - 1) = sub

\* sep.join(parts)
RECURSIVE Join(_, _)
Join(parts, sep) ==
    IF parts = << >> THEN << >>
    ELSE IF Len(parts) = 1 THEN parts[1]
    ELSE parts[1] \o sep \o Join(Tail(parts), sep)

LikelyTokens ==
    { <<"C", "H", "F">>, <<"P", "r", "e", "i", "s">>,
      <<"A", "n", "g", "e", "b", "o", "t">>, <<"i", "n", "k", "l", ".">>,
      <<"a", "b">> }

IsLikely(t) == t # << >> /\ \E tok \in LikelyTokens : Contains(t, tok)

\* lines 164-170: the second pass over the joined texts, if there are any
SecondPass(likely) ==
    IF likely # << >> THEN extract_min_price_from_text(Join(likely, <<" ">>))
    ELSE None

\* lines 150-170, given the price of the first pass
FirstOrSecondPass(price, tags) ==
    IF price # None THEN price ELSE SecondPass(SelectSeq(tags, IsLikely))

fetch_min_price(page) ==
    IF page.status # "ok" THEN Raised("RequestException")
    ELSE Returned(FirstOrSecondPass(extract_min_price_from_text(page.text), page.tags))

-----------------------------------------------------------------------------
(* PRODUCTS and DEFAULT_THRESHOLDS *)

TouchImpress == "Sage Barista Touch Impress"
BaristaPro == "Sage Barista Pro"
BaristaTouch == "Sage Barista Touch"

\* PRODUCTS.items(): the keys in insertion order.
ProductOrder == <<TouchImpress, BaristaPro, BaristaTouch>>

PRODUCTS ==
    [m \in {TouchImpress, BaristaPro, BaristaTouch} |->
        CASE m = TouchImpress ->
               << "https://www.toppreise.ch/preisvergleich/Siebtraegermaschinen/SAGE-The-Barista-Touch-Impress-Cold-Brushed-Edelstahl-p816790",
                  "https://www.toppreise.ch/preisvergleich/Siebtraegermaschinen/SAGE-The-Barista-Touch-Impress-Trueffelschwarz-p743055" >>
          [] m = BaristaPro ->
               << "https://www.toppreise.ch/produktserie/The_Barista_Pro-pc-s43919",
                  "https://www.toppreise.ch/preisvergleich/Siebtraegermaschinen/SAGE-The-Barista-Pro-Gebuerstetes-Edelstahlgrau-p565803" >>
          [] m = BaristaTouch ->
               << "https://www.toppreise.ch/produktserie/The_Barista_Touch-pc-s43924",
                  "https://www.toppreise.ch/preisvergleich/Siebtraegermaschinen/SAGE-The-Barista-Touch-Trueffelschwarz-p565822" >>]

AllURLs == UNION {{PRODUCTS[m][k] : k \in 1..Len(PRODUCTS[m])} : m \in DOMAIN PRODUCTS}

\* A threshold as JSON or Python gives it: a number (in cents) or a string.
Num(v) == [kind |-> "num", v |-> v]
Str(s) == [kind |-> "str", s |-> s]

DEFAULT_THRESHOLDS ==
    [m \in {TouchImpress, BaristaPro, BaristaTouch} |->
        CASE m = TouchImpress -> Num(96000)
          [] m = BaristaPro -> Num(58000)
          [] m = BaristaTouch -> Num(90000)]

-----------------------------------------------------------------------------
(* load_config *)

\* A configuration is a JSON value: an object with optional "ntfy_topic" and
\* "thresholds" members, or something that is no object (a list).  An absent
\* member is None; "thresholds" is a table (kind "dict") or a non-empty list.
EmptyCfg == [kind |-> "dict", ntfy_topic |-> None, thresholds |-> None]
ListCfg == [kind |-> "list"]
Table(d) == [kind |-> "dict", d |-> d]

\* conf: config.json as found ("missing", "invalid", or the JSON value);
\* envTopic: NTFY_TOPIC (None when unset); envThr: THRESHOLDS (None when
\* unset, "invalid" when no JSON, else the JSON value).
load_config(conf, envTopic, envThr) ==
    LET cfg0 == IF conf.kind \in {"missing", "invalid"} THEN EmptyCfg ELSE conf.json
        cfg1 == IF envTopic = None THEN cfg0
                ELSE [cfg0 EXCEPT !.ntfy_topic = envTopic]
        cfg2 == IF envThr.kind \in {"unset", "invalid"} \/ cfg1.kind # "dict" THEN cfg1
                ELSE [cfg1 EXCEPT !.thresholds = Some(envThr.json)]
    IN  IF envTopic # None /\ cfg0.kind # "dict" THEN Raised("TypeError")
        ELSE Returned(cfg2)

-----------------------------------------------------------------------------
(* poll_all_products: the pieces of the loop body *)

\* line 184
ImprovesMin_NonStrict(p, min_price) ==
    p # None /\ (min_price = None \/ p[1] <= min_price[1])

ImprovesMin(p, min_price) ==
    p # None /\ (min_price = None \/ p[1] < min_price[1])

RECURSIVE DecStr(_)
DecStr(n) ==
    IF n < 10 THEN <<DigitChar(n)>>
    ELSE DecStr(n \div 10) \o <<DigitChar(n % 10)>>

\* f"{x:.2f}" of an amount of x cents
Format2(cents) ==
    DecStr(cents \div 100) \o <<".">>
        \o <<DigitChar((cents % 100) \div 10), DigitChar(cents % 10)>>

\* lines 189-192: out[model] = {...}
AssignEntry_SkipEmpty(out, model, min_price, min_url, urls) ==
    IF min_price = None THEN out
    ELSE [m \in DOMAIN out \cup {model} |->
            IF m = model
            THEN [price_chf |-> Format2(min_price[1]), url |-> min_url[1]]
            ELSE out[m]]

AssignEntry(out, model, min_price, min_url, urls) ==
    [m \in DOMAIN out \cup {model} |->
        IF m = model
        THEN [price_chf |-> IF min_price # None THEN Format2(min_price[1]) ELSE << >>,
              url |-> IF min_url # None THEN min_url[1]
                      ELSE IF urls # << >> THEN urls[1] ELSE ""]
        ELSE out[m]]

-----------------------------------------------------------------------------
(* send_push_if_needed *)

\* float(thr), line 265
FloatOf(thr) == IF thr.kind = "num" THEN Returned(thr.v) ELSE PyFloat(thr.s)

\* f"{thr:.2f}", line 268: the format code 'f' raises ValueError for a str
FormatRaises(thr) == thr.kind # "num"

\* dict.get(key)
Get(d, key) == IF key \in DOMAIN d THEN Some(d[key]) ELSE None

\* data.items(): poll_all_products inserted the keys in PRODUCTS order
Items(data) == SelectSeq(ProductOrder, LAMBDA m : m \in DOMAIN data)

\* cfg.get("thresholds", {}) or DEFAULT_THRESHOLDS, line 253: an absent
\* member and an empty table are falsy
EffectiveThresholds(cfg) ==
    IF cfg.thresholds = None THEN Table(DEFAULT_THRESHOLDS)
    ELSE IF cfg.thresholds[1].kind = "dict" /\ DOMAIN cfg.thresholds[1].d = {}
         THEN Table(DEFAULT_THRESHOLDS)
         ELSE cfg.thresholds[1]

\* One pass through the loop body, lines 255-281, for one key: the
\* requests.post call made (at most one), or the exception that leaves the
\* function.  fails is the set of products whose request will fail (that
\* exception is swallowed, line 279).
PushOne(data, model, thresholds, fails) ==
    LET d == data[model]
        price == PyFloat(d.price_chf)
        thr == Get(thresholds.d, model)
        lim == FloatOf(thr[1])
        post == [product |-> model, price |-> price.value, threshold |-> lim.value,
                 url |-> d.url, delivered |-> model \notin fails]
    IN  IF d.price_chf = << >> \/ price.raised THEN Returned(<< >>)
        ELSE IF thresholds.kind # "dict" THEN Raised("AttributeError")
        ELSE IF thr = None THEN Returned(<< >>)
        ELSE IF lim.raised THEN lim
        ELSE IF price.value <= lim.value /\ ~FormatRaises(thr[1]) THEN Returned(<<post>>)
        ELSE Returned(<< >>)

\* The loop of lines 254-281 over the remaining keys; acc is the sequence of
\* requests.post calls made so far.
RECURSIVE PushLoop(_, _, _, _, _)
PushLoop(data, names, thresholds, fails, acc) ==
    IF names = << >> THEN [raised |-> FALSE, posts |-> acc]
    ELSE LET r == PushOne(data, Head(names), thresholds, fails)
         IN  IF r.raised THEN [raised |-> TRUE, posts |-> acc]
             ELSE PushLoop(data, Tail(names), thresholds, fails, acc \o r.value)

send_push_if_needed(data, cfg, fails) ==
    IF cfg.kind # "dict" THEN [raised |-> TRUE, posts |-> << >>]
    ELSE IF cfg.ntfy_topic = None THEN [raised |-> FALSE, posts |-> << >>]
    ELSE PushLoop(data, Items(data), EffectiveThresholds(cfg), fails, << >>)

-----------------------------------------------------------------------------
(* Inputs of the environment *)

PageAb580 ==
    [status |-> "ok",
     text |-> <<"a", "b", " ", "C", "H", "F", " ", "5", "8", "0", ".", "0", "0">>,
     tags |-> << <<"a", "b", " ", "C", "H", "F", " ", "5", "8", "0", ".", "0", "0">> >>]

PageBare960 ==
    [status |-> "ok",
     text |-> <<"C", "H", "F", " ", "9", "6", "0", ".", "0", "0", " ",
                "C", "H", "F", " ", "3", "'", "5", "0", "0", ".", "0", "0", " ",
                "C", "H", "F", " ", "5", ".", "9", "0">>,
     tags |-> << <<"C", "H", "F", " ", "9", "6", "0", ".", "0", "0">>,
                 <<"C", "H", "F", " ", "3", "'", "5", "0", "0", ".", "0", "0">>,
                 <<"C", "H", "F", " ", "5", ".", "9", "0">> >>]

\* <body><div><span>960</span><span>CHF</span></div></body>: the amount
\* precedes the currency, and only the joined tag texts bring them in order.
PageSplit960 ==
    [status |-> "ok",
     text |-> <<"9", "6", "0", " ", "C", "H", "F">>,
     tags |-> << <<"9", "6", "0", " ", "C", "H", "F">>,
                 <<"9", "6", "0", " ", "C", "H", "F">>,
                 <<"9", "6", "0">>,
                 <<"C", "H", "F">> >>]

PageNoPrice ==
    [status |-> "ok",
     text |-> <<"K", "e", "i", "n", " ", "A", "n", "g", "e", "b", "o", "t">>,
     tags |-> << <<"K", "e", "i", "n", " ", "A", "n", "g", "e", "b", "o", "t">> >>]

Pages == {ErrorPage, PageAb580, PageBare960, PageSplit960, PageNoPrice}

\* A site that is down or lists no offer.
QuietPages == {ErrorPage, PageNoPrice}

Sites == {Pages, QuietPages}

Topic == <<"s", "a", "g", "e">>

ProOnly == Table((BaristaPro :> Num(60000)))
BadEntry == Table((TouchImpress :> Str(<<"a", "b", "c">>)) @@ (BaristaPro :> Num(58000)))

ConfFiles ==
    { [kind |-> "missing"], [kind |-> "invalid"],
      [kind |-> "json", json |-> ListCfg],
      [kind |-> "json",
       json |-> [EmptyCfg EXCEPT !.ntfy_topic = Some(Topic), !.thresholds = Some(BadEntry)]] }

EnvTopics == {None, Some(Topic)}

EnvThresholds ==
    { [kind |-> "unset"], [kind |-> "invalid"], [kind |-> "json", json |-> ProOnly] }

Intervals == {0, 60}

-----------------------------------------------------------------------------
(* The output files *)

\* A file reaches the disk in at most FileChunks writes; a reader sees how
\* many of them are there.  open(path, "w") truncates the file at once.
FileChunks == 2

Artifacts == {"prices.json", "index.html", "widget.html"}

NoFile == [exists |-> FALSE, chunks |-> 0]
Truncated == [exists |-> TRUE, chunks |-> 0]

-----------------------------------------------------------------------------
(* main(), job(), generate_once() *)

Threads == {"main", "loop"}

\* The locals of one job() call, gone when it returns.  obs (the fetch
\* results of the product being polled), unobserved (the products whose URLs
\* yielded no price) and allFailed (every fetch so far raised) record what
\* the fetches of the cycle returned: no action reads them.
NewFrame(ret) ==
    [cfg |-> EmptyCfg, out |-> [m \in {} |-> 0], mi |-> 0, ui |-> 0,
     min_price |-> None, min_url |-> None,
     obs |-> << >>, unobserved |-> {}, allFailed |-> TRUE,
     push |-> "none", ret |-> ret]

Init ==
    /\ text = << >>
    /\ result = None
    /\ ppc = "idle"
    /\ args \in [serve : BOOLEAN, interval : Intervals]
    /\ tpc = [t \in Threads |-> IF t = "main" THEN "job" ELSE "unstarted"]
    /\ frame = [t \in Threads |-> NewFrame(IF t = "main" THEN "initial" ELSE "loop")]
    /\ files = [f \in Artifacts |-> NoFile]
    /\ posts = << >>
    /\ lastLog = "none"
    /\ lastRead = None
    /\ site \in Sites
    /\ attempts = [u \in AllURLs |-> 0]
    /\ sincePause = 0

Goto(t, pc) == tpc' = [tpc EXCEPT ![t] = pc]

\* Where job() returns to: line 328 (then the modes) or the while loops.
AfterJob(t) == IF frame[t].ret = "initial" THEN "modes" ELSE "interval_sleep"

\* job(): print("[Update] ..."), then generate_once() begins
JobStart(t) ==
    /\ tpc[t] = "job"
    /\ lastLog' = "Update"
    /\ attempts' = [u \in AllURLs |-> 0]
    /\ Goto(t, "load_config")
    /\ UNCHANGED <<fixed, args, frame, files, posts, lastRead, sincePause>>

\* cfg = load_config(), r being what it returned or that it raised
ConfigLoaded(t, r) ==
    IF r.raised
    THEN /\ Goto(t, "except")
         /\ UNCHANGED frame
    ELSE /\ frame' = [frame EXCEPT ![t].cfg = r.value]
         /\ Goto(t, "poll_model")

LoadConfig(t) ==
    /\ tpc[t] = "load_config"
    /\ \E conf \in ConfFiles, envTopic \in EnvTopics, envThr \in EnvThresholds :
          ConfigLoaded(t, load_config(conf, envTopic, envThr))
    /\ UNCHANGED <<fixed, args, files, posts, lastLog, lastRead, attempts, sincePause>>

\* for model, urls in PRODUCTS.items(): the next product, or return out
PollModel(t) ==
    /\ tpc[t] = "poll_model"
    /\ IF frame[t].mi < Len(ProductOrder)
       THEN LET model == ProductOrder[frame[t].mi + 1]
            IN  /\ frame' = [frame EXCEPT ![t].mi = @ + 1,
                                          ![t].ui = 1,
                                          ![t].min_price = None,
                                          ![t].min_url = None,
                                          ![t].obs = << >>]
                /\ Goto(t, "fetch")
       ELSE /\ Goto(t, "write_json")
            /\ frame' = [frame EXCEPT ![t].obs = << >>]
    /\ UNCHANGED <<fixed, args, files, posts, lastLog, lastRead, attempts, sincePause>>

CurrentModel(t) == ProductOrder[frame[t].mi]
CurrentURL(t) == PRODUCTS[CurrentModel(t)][frame[t].ui]

\* fetch_min_price(u) is called: requests.get is under way
FetchBegin(t) ==
    /\ tpc[t] = "fetch"
    /\ attempts' = [attempts EXCEPT ![CurrentURL(t)] = @ + 1]
    /\ sincePause' = sincePause + 1
    /\ Goto(t, "fetching")
    /\ UNCHANGED <<fixed, args, frame, files, posts, lastLog, lastRead>>

\* lines 180-186, r being what fetch_min_price returned or that it raised
FetchResult(t, r, next) ==
    LET p == IF r.raised THEN None ELSE r.value
        better == ImprovesMin(p, frame[t].min_price)
    IN  /\ frame' = [frame EXCEPT
                        ![t].min_price = IF better THEN p ELSE @,
                        ![t].min_url = IF better THEN Some(CurrentURL(t)) ELSE @,
                        ![t].obs = Append(@, r),
                        ![t].allFailed = @ /\ r.raised]
        /\ Goto(t, next)

\* The request ends; line 187 follows whatever it returned.
FetchResult_PauseOnPriceOnly(t, r) ==
    FetchResult(t, r, IF r.raised THEN "after_sleep" ELSE "sleep")

FetchEnd_PauseOnPriceOnly(t) ==
    /\ tpc[t] = "fetching"
    /\ \E page \in site : FetchResult_PauseOnPriceOnly(t, fetch_min_price(page))
    /\ UNCHANGED <<fixed, args, files, posts, lastLog, lastRead, attempts, sincePause>>

FetchEnd(t) ==
    /\ tpc[t] = "fetching"
    /\ \E page \in site : FetchResult(t, fetch_min_price(page), "sleep")
    /\ UNCHANGED <<fixed, args, files, posts, lastLog, lastRead, attempts, sincePause>>

\* time.sleep(REQUEST_PAUSE)
Sleep(t) ==
    /\ tpc[t] = "sleep"
    /\ sincePause' = 0
    /\ Goto(t, "after_sleep")
    /\ UNCHANGED <<fixed, args, frame, files, posts, lastLog, lastRead, attempts>>

\* The inner loop goes on with the next URL, or ends and lines 189-192 run.
NextURL(t) ==
    /\ tpc[t] = "after_sleep"
    /\ LET model == CurrentModel(t)
           urls == PRODUCTS[model]
       IN  IF frame[t].ui < Len(urls)
           THEN /\ frame' = [frame EXCEPT ![t].ui = @ + 1]
                /\ Goto(t, "fetch")
           ELSE /\ frame' = [frame EXCEPT
                               ![t].out = AssignEntry(@, model, frame[t].min_price,
                                                      frame[t].min_url, urls),
                               ![t].unobserved =
                                   IF \A k \in 1..Len(frame[t].obs) :
                                          \/ frame[t].obs[k].raised
                                          \/ frame[t].obs[k].value = None
                                   THEN @ \cup {model} ELSE @]
                /\ Goto(t, "poll_model")
    /\ UNCHANGED <<fixed, args, files, posts, lastLog, lastRead, attempts, sincePause>>

\* The steps of generate_once() that write a file, and what follows each.
FileOf(pc) ==
    CASE pc \in {"write_json", "dump_json"} -> "prices.json"
      [] pc \in {"open_index", "write_index"} -> "index.html"
      [] pc \in {"open_widget", "write_widget"} -> "widget.html"

NextOf(pc) ==
    CASE pc = "write_json" -> "dump_json"
      [] pc = "dump_json" -> "render_index"
      [] pc = "render_index" -> "open_index"
      [] pc = "open_index" -> "write_index"
      [] pc = "write_index" -> "render_widget"
      [] pc = "render_widget" -> "open_widget"
      [] pc = "open_widget" -> "write_widget"
      [] pc = "write_widget" -> "send_push"

\* with open(path, "w") as f: the file is created or truncated in place,
\* or open() raises OSError.
OpenOut(t) ==
    /\ tpc[t] \in {"write_json", "open_index", "open_widget"}
    /\ \/ /\ files' = [files EXCEPT ![FileOf(tpc[t])] = Truncated]
          /\ Goto(t, NextOf(tpc[t]))
       \/ /\ Goto(t, "except")
          /\ UNCHANGED files
    /\ UNCHANGED <<fixed, args, frame, posts, lastLog, lastRead, attempts, sincePause>>

\* json.dump / f.write: some more of the content reaches the file; the with
\* block closes the file once everything is written.
WriteOut(t) ==
    /\ tpc[t] \in {"dump_json", "write_index", "write_widget"}
    /\ LET f == FileOf(tpc[t])
       IN  \E n \in (files[f].chunks + 1)..FileChunks :
              /\ files' = [files EXCEPT ![f].chunks = n]
              /\ IF n = FileChunks THEN Goto(t, NextOf(tpc[t])) ELSE UNCHANGED tpc
    /\ UNCHANGED <<fixed, args, frame, posts, lastLog, lastRead, attempts, sincePause>>

\* render_html, lines 214-236: the template is read (it may be missing) and
\* the page is built in memory.
ReadTemplate(t) ==
    /\ tpc[t] \in {"render_index", "render_widget"}
    /\ \/ Goto(t, NextOf(tpc[t]))
       \/ Goto(t, "except")
    /\ UNCHANGED <<fixed, args, frame, files, posts, lastLog, lastRead, attempts, sincePause>>

\* r being the requests send_push_if_needed made and whether it raised
Pushed(t, r) ==
    /\ posts' = r.posts
    /\ frame' = [frame EXCEPT ![t].push = IF r.raised THEN "raised" ELSE "returned"]
    /\ Goto(t, IF r.raised THEN "except" ELSE "job_ok")

\* send_push_if_needed(data, cfg), whole
SendPush(t) ==
    /\ tpc[t] = "send_push"
    /\ \E fails \in SUBSET DOMAIN PRODUCTS :
          Pushed(t, send_push_if_needed(frame[t].out, frame[t].cfg, fails))
    /\ UNCHANGED <<fixed, args, files, lastLog, lastRead, attempts, sincePause>>

\* print("[OK] ...") and job() returns
JobOk(t) ==
    /\ tpc[t] = "job_ok"
    /\ lastLog' = "OK"
    /\ frame' = [frame EXCEPT ![t] = NewFrame(frame[t].ret)]
    /\ posts' = << >>
    /\ Goto(t, AfterJob(t))
    /\ UNCHANGED <<fixed, args, files, lastRead, attempts, sincePause>>

\* Without the try of line 320 the exception ends the thread.
JobExcept_Uncaught(t) ==
    /\ tpc[t] = "except"
    /\ Goto(t, "dead")
    /\ UNCHANGED <<fixed, args, frame, files, posts, lastLog, lastRead, attempts, sincePause>>

\* except Exception as ex: print("[ERR]", ex), and job() returns
JobExcept(t) ==
    /\ tpc[t] = "except"
    /\ lastLog' = "ERR"
    /\ frame' = [frame EXCEPT ![t] = NewFrame(frame[t].ret)]
    /\ posts' = << >>
    /\ Goto(t, AfterJob(t))
    /\ UNCHANGED <<fixed, args, files, lastRead, attempts, sincePause>>

\* lines 331-344
ModeServe ==
    /\ tpc["main"] = "modes"
    /\ args.serve /\ args.interval <= 0
    /\ Goto("main", "serving")
    /\ UNCHANGED <<fixed, args, frame, files, posts, lastLog, lastRead, attempts, sincePause>>

ModeServeInterval ==
    /\ tpc["main"] = "modes"
    /\ args.serve /\ args.interval > 0
    /\ tpc' = [tpc EXCEPT !["main"] = "serving", !["loop"] = "interval_sleep"]
    /\ UNCHANGED <<fixed, args, frame, files, posts, lastLog, lastRead, attempts, sincePause>>

ModeInterval ==
    /\ tpc["main"] = "modes"
    /\ ~args.serve /\ args.interval > 0
    /\ frame' = [frame EXCEPT !["main"].ret = "loop"]
    /\ Goto("main", "interval_sleep")
    /\ UNCHANGED <<fixed, args, files, posts, lastLog, lastRead, attempts, sincePause>>

ModeOnce ==
    /\ tpc["main"] = "modes"
    /\ ~args.serve /\ args.interval <= 0
    /\ Goto("main", "exit")
    /\ UNCHANGED <<fixed, args, frame, files, posts, lastLog, lastRead, attempts, sincePause>>

\* time.sleep(args.interval), then job()
IntervalSleep(t) ==
    /\ tpc[t] = "interval_sleep"
    /\ Goto(t, "job")
    /\ UNCHANGED <<fixed, args, frame, files, posts, lastLog, lastRead, attempts, sincePause>>

\* serve_forever(): SimpleHTTPRequestHandler answers a GET with the file as
\* it is on disk at that moment.
ServeRequest ==
    /\ tpc["main"] = "serving"
    /\ \E f \in Artifacts : lastRead' = Some(files[f])
    /\ UNCHANGED <<fixed, args, tpc, frame, files, posts, lastLog, attempts, sincePause>>

Step(t) ==
    \/ JobStart(t)
    \/ LoadConfig(t)
    \/ PollModel(t)
    \/ FetchBegin(t)
    \/ FetchEnd(t)
    \/ Sleep(t)
    \/ NextURL(t)
    \/ OpenOut(t)
    \/ WriteOut(t)
    \/ ReadTemplate(t)
    \/ SendPush(t)
    \/ JobOk(t)
    \/ JobExcept(t)
    \/ IntervalSleep(t)

Program ==
    \/ \E t \in Threads : Step(t)
    \/ ModeServe
    \/ ModeServeInterval
    \/ ModeInterval
    \/ ModeOnce

Next ==
    \/ \E t \in Threads : Step(t)
    \/ ModeServe
    \/ ModeServeInterval
    \/ ModeInterval
    \/ ModeOnce
    \/ ServeRequest

Spec == Init /\ [][Next]_vars

\* The runs against a site that is down or lists no offer.
QuietInit == Init /\ site = QuietPages

\* Every step of the program ends: a fetch by TIMEOUT, a sleep by its
\* duration.  Requests to the server are the clients' choice.
QuietFairSpec == QuietInit /\ [][Next]_vars /\ WF_vars(Program)

-----------------------------------------------------------------------------
(* The parser applied to bounded texts *)

MaxPieces == 2

AbChfLabel == <<"a", "b", " ", "C", "H", "F", " ">>
AbChfUpper == <<"A", "B", "c", "h", "f">>
GuenstigsterLabel ==
    <<"G", "uuml", "n", "s", "t", "i", "g", "s", "t", "e", "r", "\n",
      "P", "r", "o", "d", "u", "k", "t", "p", "r", "e", "i", "s", ":", " ">>
ChfLabel == <<"C", "H", "F", " ">>

Labels == {AbChfLabel, AbChfUpper, GuenstigsterLabel \o ChfLabel, ChfLabel}

Amounts ==
    { <<"1", "'", "0", "9", "9", ".", "0", "0">>,
      <<"5", "0", "0", ".", "0", "0">>,
      <<"'">>,
      <<"1", "0", "0">>,
      <<"9", "9", ".", "9", "9">>,
      <<"3", "rsquo", "0", "0", "0", ".", "0", "0">>,
      <<"3", "'", "0", "0", "0", ".", "0", "1">> }

Fillers == { <<"x", " ">>, GuenstigsterLabel }

Pieces == {l \o a \o <<" ">> : l \in Labels, a \in Amounts} \cup Fillers

RECURSIVE TextsOf(_)
TextsOf(n) ==
    IF n = 0 THEN { << >> }
    ELSE LET T == TextsOf(n - 1)
         IN  T \cup {t \o p : t \in T, p \in Pieces}

Texts == TextsOf(MaxPieces)

\* The program itself is not running: main() has returned.
ParseInit ==
    /\ text \in Texts
    /\ result = None
    /\ ppc = "call"
    /\ args = [serve |-> FALSE, interval |-> 0]
    /\ tpc = [t \in Threads |-> IF t = "main" THEN "exit" ELSE "unstarted"]
    /\ frame = [t \in Threads |-> NewFrame(IF t = "main" THEN "initial" ELSE "loop")]
    /\ files = [f \in Artifacts |-> NoFile]
    /\ posts = << >>
    /\ lastLog = "none"
    /\ lastRead = None
    /\ site = Pages
    /\ attempts = [u \in AllURLs |-> 0]
    /\ sincePause = 0

ParseText ==
    /\ ppc = "call"
    /\ result' = extract_min_price_from_text(text)
    /\ ppc' = "returned"
    /\ UNCHANGED <<text, mainVars>>

ParseNext == ParseText

ParseSpec == ParseInit /\ [][ParseNext]_vars

-----------------------------------------------------------------------------
(* Properties of poll_all_products and of the fetch schedule *)

\* The prices the URLs of the product being polled have yielded.
Priced(obs) == {k \in 1..Len(obs) : ~obs[k].raised /\ obs[k].value # None}
ObservedPrices(obs) == {obs[k].value[1] : k \in Priced(obs)}

\* Where line 189 has just run for the product frame[t].mi.
EntryWritten(t) == tpc[t] = "poll_model" /\ frame[t].mi >= 1

\* C1: when a product's URLs have all been fetched, its snapshot price is
\* the minimum of the prices they yielded and its URL the first URL, in
\* configured order, that yielded that minimum; when none yielded a price
\* the snapshot price is empty and the URL is the first configured URL.
C1_SnapshotIsMinimum ==
    \A t \in Threads :
        EntryWritten(t) =>
            LET model == ProductOrder[frame[t].mi]
                urls == PRODUCTS[model]
                obs == frame[t].obs
                entry == frame[t].out[model]
                P == ObservedPrices(obs)
            IN  /\ Len(obs) = Len(urls)
                /\ IF P # {}
                   THEN /\ entry.price_chf # << >>
                        /\ PyFloat(entry.price_chf) = Returned(Min(P))
                        /\ entry.url =
                             urls[Min({k \in Priced(obs) : obs[k].value[1] = Min(P)})]
                   ELSE /\ entry.price_chf = << >>
                        /\ entry.url = urls[1]

\* Two URLs of one product yielded the same price and the snapshot names
\* the first.
C1_Witness ==
    \E t \in Threads :
        /\ EntryWritten(t)
        /\ Priced(frame[t].obs) = {1, 2}
        /\ frame[t].obs[1].value = frame[t].obs[2].value
        /\ frame[t].out[ProductOrder[frame[t].mi]].url
              = PRODUCTS[ProductOrder[frame[t].mi]][1]

\* C7: what poll_all_products returns has exactly one entry per configured
\* product, whatever the fetches returned, and the entry of a product whose
\* URLs yielded no price has an empty price.
C7_OneEntryPerProduct ==
    \A t \in Threads :
        tpc[t] = "write_json" =>
            /\ DOMAIN frame[t].out = DOMAIN PRODUCTS
            /\ Cardinality(DOMAIN frame[t].out) = Len(ProductOrder)
            /\ \A m \in frame[t].unobserved : frame[t].out[m].price_chf = << >>

\* Every fetch of every product failed and the snapshot is returned.
C7_Witness ==
    \E t \in Threads :
        /\ tpc[t] = "write_json"
        /\ frame[t].allFailed
        /\ frame[t].unobserved = DOMAIN PRODUCTS

InFlight == Cardinality({t \in Threads : tpc[t] = "fetching"})

\* C8: at most one fetch is under way at any time, no URL is fetched twice
\* in a cycle and each has been fetched once when the poll returns, and a
\* fetch never begins before the pacing delay that follows the previous one.
C8_SequentialPacedFetches ==
    /\ InFlight <= 1
    /\ sincePause <= 1
    /\ \A u \in AllURLs : attempts[u] <= 1
    /\ \A t \in Threads : tpc[t] = "write_json" => \A u \in AllURLs : attempts[u] = 1

\* The background thread fetches the second URL of a product, after the
\* pause that followed the failed fetch of the first, while main() serves.
C8_Witness ==
    /\ tpc["main"] = "serving"
    /\ tpc["loop"] = "fetching"
    /\ Len(frame["loop"].obs) = 1
    /\ frame["loop"].obs[1].raised
    /\ sincePause = 1

CycleStarts == \E t \in Threads : tpc[t] = "job"

\* C9: whatever fails in a cycle, in the interval modes a next cycle is
\* always started again, and with --serve main() reaches serve_forever and
\* stays there.
C9_CyclesContinue ==
    /\ [](args.interval > 0 => <>CycleStarts)
    /\ [](args.serve => <>(tpc["main"] = "serving"))
    /\ [][tpc["main"] = "serving" => tpc'["main"] = "serving"]_vars

\* A background cycle has failed, the server goes on and the thread waits
\* for the next cycle (the truncated file was served during a background
\* cycle, so the [ERR] line is a background cycle's).
C9_Witness ==
    /\ lastLog = "ERR"
    /\ tpc["main"] = "serving"
    /\ tpc["loop"] = "interval_sleep"
    /\ lastRead = Some(Truncated)

-----------------------------------------------------------------------------
(* Properties of the output files *)

\* C4: the server never serves a file that is partly written.
C4_NoPartialRead ==
    lastRead # None => (~lastRead[1].exists \/ lastRead[1].chunks = FileChunks)

-----------------------------------------------------------------------------
(* Properties of send_push_if_needed *)

\* The alert evaluation of thread t has ended, with a topic configured.
Evaluated(t) ==
    /\ frame[t].push # "none"
    /\ frame[t].cfg.kind = "dict"
    /\ frame[t].cfg.ntfy_topic # None

\* The caller-supplied override table (empty when there is none).
Overrides(cfg) ==
    IF cfg.thresholds # None /\ cfg.thresholds[1].kind = "dict"
    THEN cfg.thresholds[1].d
    ELSE [m \in {} |-> Num(0)]

WellFormed(table) == \A m \in DOMAIN table : table[m].kind = "num"

\* The threshold of a product: the override, else the built-in default.
HasThreshold(cfg, m) == m \in DOMAIN Overrides(cfg) \cup DOMAIN DEFAULT_THRESHOLDS
ThresholdOf(cfg, m) ==
    IF m \in DOMAIN Overrides(cfg) THEN Overrides(cfg)[m] ELSE DEFAULT_THRESHOLDS[m]

HasPrice(data, m) == data[m].price_chf # << >>
PriceOf(data, m) == PyFloat(data[m].price_chf).value

PostsFor(m) == {k \in 1..Len(posts) : posts[k].product = m}

\* C2: with well-formed thresholds, a product that the override table omits
\* is measured against its built-in default threshold: with a price at or
\* below it, it is alerted.
C2_DefaultForOmittedProduct ==
    \A t \in Threads :
        (Evaluated(t) /\ WellFormed(Overrides(frame[t].cfg))) =>
            \A m \in DOMAIN frame[t].out :
                ( /\ m \notin DOMAIN Overrides(frame[t].cfg)
                  /\ m \in DOMAIN DEFAULT_THRESHOLDS
                  /\ HasPrice(frame[t].out, m)
                  /\ PriceOf(frame[t].out, m) <= DEFAULT_THRESHOLDS[m].v )
                => PostsFor(m) # {}

\* C3: with well-formed thresholds, a product gets exactly one alert if it
\* has a price, a threshold (override, else default) and price <= threshold,
\* and none otherwise.
C3_AlertIffAtOrBelow ==
    \A t \in Threads :
        (Evaluated(t) /\ WellFormed(Overrides(frame[t].cfg))) =>
            \A m \in DOMAIN frame[t].out :
                IF /\ HasPrice(frame[t].out, m)
                   /\ HasThreshold(frame[t].cfg, m)
                   /\ PriceOf(frame[t].out, m) <= ThresholdOf(frame[t].cfg, m).v
                THEN Cardinality(PostsFor(m)) = 1
                ELSE PostsFor(m) = {}

\* C10: the evaluation does not raise, and every product whose entry in the
\* table in use is a number, and whose price is at or below it, gets its
\* alert, whatever is wrong with another product's entry or delivery.
C10_FailureConfinedToProduct ==
    \A t \in Threads :
        (Evaluated(t) /\ EffectiveThresholds(frame[t].cfg).kind = "dict") =>
            /\ frame[t].push = "returned"
            /\ \A m \in DOMAIN frame[t].out :
                  ( /\ HasPrice(frame[t].out, m)
                    /\ m \in DOMAIN EffectiveThresholds(frame[t].cfg).d
                    /\ EffectiveThresholds(frame[t].cfg).d[m].kind = "num"
                    /\ PriceOf(frame[t].out, m) <= EffectiveThresholds(frame[t].cfg).d[m].v )
                  => PostsFor(m) # {}

-----------------------------------------------------------------------------
(* Properties of extract_min_price_from_text *)

Phrase == AbChfLabel \o <<"1", "'", "0", "9", "9", ".", "0", "0">>

\* The indexes where the phrase "ab CHF 1'099.00" stands in s.
PhraseAt(s) ==
    {i \in 1..(Len(s) - Len(Phrase) + 1) : SubSeq(s, i, i + Len(Phrase) - 1) = Phrase}

\* The indexes where a "CHF <amount>" mention starts, and where an
\* "ab CHF <amount>" mention starts.
ChfMentions(s) == {i \in 1..Len(s) : RE_CHF_ANY_At(s, i).ok}
AbChfMentions(s) == {i \in 1..Len(s) : RE_AB_CHF_At(s, i).ok}

\* C5 as stated: a text that contains "ab CHF 1'099.00" anywhere yields
\* 1099.00, whatever else it contains.
C5_PhraseAnywhere ==
    (ppc = "returned" /\ PhraseAt(text) # {}) => result = Some(109900)

\* C5, amended: a text whose leftmost "ab CHF <amount>" mention is the phrase
\* "ab CHF 1'099.00" yields 1099.00, whatever other mentions it contains.
C5_LeftmostPhrase ==
    ( /\ ppc = "returned"
      /\ PhraseAt(text) # {}
      /\ Min(PhraseAt(text)) = Min(AbChfMentions(text)) )
    => result = Some(109900)

\* The phrase comes after a cheaper bare mention, or after a mention with
\* the second tier's label, and is what is returned.
C5_Witness ==
    /\ ppc = "returned"
    /\ PhraseAt(text) # {}
    /\ Min(PhraseAt(text)) = Min(AbChfMentions(text))
    /\ \E i \in ChfMentions(text) :
          /\ i < Min(PhraseAt(text))
          /\ chf_to_float(RE_CHF_ANY_At(text, i).group) = Returned(50000)
    /\ result = Some(109900)

\* The values of the "CHF <amount>" mentions of s that parse and lie in
\* [100.00, 3000.00].
MentionsInRange(s) ==
    {v \in {chf_to_float(RE_CHF_ANY_At(s, i).group) : i \in ChfMentions(s)} :
        ~v.raised /\ 10000 <= v.value /\ v.value <= 300000}

\* C6: when neither labelled pattern matches, the result is the least of
\* the mentions within [100, 3000], bounds included, and absent when there
\* is none.
C6_MinOfMentionsInRange ==
    ( /\ ppc = "returned"
      /\ ~RE_AB_CHF_search(text).ok
      /\ ~RE_GUENSTIGSTER_search(text).ok )
    => result = (IF MentionsInRange(text) = {} THEN None
                 ELSE Some(Min({v.value : v \in MentionsInRange(text)})))

\* A text of bare mentions only, one of them exactly 100.00 and another
\* one below the range: the result is 100.00.
C6_Witness ==
    /\ ppc = "returned"
    /\ ~RE_AB_CHF_search(text).ok
    /\ ~RE_GUENSTIGSTER_search(text).ok
    /\ \E i \in ChfMentions(text) :
          chf_to_float(RE_CHF_ANY_At(text, i).group) = Returned(9999)
    /\ result = Some(10000)

=============================================================================
